---- MODULE Spec2Model ----
(***************************************************************************)
(* A model of fasttext::QuantMatrix (src/src/quantmatrix.cc): a matrix     *)
(* whose rows are stored as product-quantization codes, with an optional   *)
(* separately quantized row norm, its two queries (dotRow, addRowToVector),*)
(* its two refused operations (addVectorToRow, dump) and its positional    *)
(* binary serialization (save, load).                                      *)
(*                                                                         *)
(* Reals are modelled by integers.  A stream is a sequence of cells, one   *)
(* cell per fixed-width field (bool, int64) and one cell per code byte.    *)
(* The ProductQuantizer is not part of quantmatrix.cc; its operations are  *)
(* modelled from the VectorQuantizer contract of the specification.        *)
(***************************************************************************)
EXTENDS Integers, Sequences, FiniteSets, TLC

\* ------------------------------------------------------------- bounds
MaxRows == 2
MaxCols == 2
MaxDsub == 2
\* Number of distinct dense-matrix contents (training sets) considered.
NumData == 1
\* Size of one codebook (256 in the library; codes are bytes).
KSub == 2
\* Number of QuantMatrix objects created in one run.
MaxObjects == 2
\* Number of save calls in one run.
MaxSaves == 1

VARIABLES
    ndebug,        \* the build: TRUE when assert() is compiled out
    objects,       \* number of QuantMatrix objects created so far
    origin,        \* how the current object got its state
    qnorm_, m_, n_, codesize_, codes_, pq_, norm_codes_, npq_,
    out,           \* the bytes written by the last save (the file)
    saves,         \* number of save calls so far
    hasSaved,      \* a save has completed
    saved,         \* the fields and origin of the object that wrote out
    \* The last call: its arguments and what it gave back.
    lastOp,        \* the operation called
    preOrigin,     \* origin of the object before the call
    argI,          \* the row index given to a query
    argLen,        \* the length of the vector given to the call
    argA,          \* the scale given to addRowToVector
    inp,           \* the stream given to load, as load left it
    outcome,       \* how the call ended
    result,        \* the value dotRow returned
    acc,           \* the caller's vector after the call
    thr,           \* reader threads (concurrent specification)
    ldr            \* loader thread (concurrent specification)

fieldVars == <<qnorm_, m_, n_, codesize_, codes_, pq_, norm_codes_, npq_>>
callVars == <<lastOp, argI, argLen, argA, outcome, result, acc, inp, preOrigin>>
fileVars == <<out, saves, hasSaved, saved>>
concVars == <<thr, ldr>>
vars == <<ndebug, objects, origin, fieldVars, fileVars, callVars, concVars>>

\* ------------------------------------------------- small helpers
Min(a, b) == IF a < b THEN a ELSE b

Zeros(k) == [j \in 1..k |-> 0]

RECURSIVE SumTo(_, _)
SumTo(f, k) == IF k = 0 THEN 0 ELSE f[k] + SumTo(f, k - 1)

\* The object's fields as one value.
Fields ==
    [qnorm |-> qnorm_, m |-> m_, n |-> n_, codesize |-> codesize_,
     codes |-> codes_, pq |-> pq_, norm_codes |-> norm_codes_, npq |-> npq_]

\* ------------------------------------------- ProductQuantizer
\* A null unique_ptr<ProductQuantizer>.
NullPQ == [null |-> TRUE, dim |-> 0, dsub |-> 0, cb |-> 0]

\* ProductQuantizer(): an empty quantizer, to be filled by load.
EmptyPQ == [null |-> FALSE, dim |-> 0, dsub |-> 0, cb |-> 0]

\* ProductQuantizer(dim, dsub), not yet trained.
NewPQ(dim, dsub) == [null |-> FALSE, dim |-> dim, dsub |-> dsub, cb |-> 0]

\* train(count, data): the codebooks learnt from the data; cb names them.
TrainPQ(pq, cbid) == [pq EXCEPT !.cb = cbid]

\* Number of sub-vector slots: ceil(dim / dsub).
NSubq(pq) == IF pq.dsub < 1 THEN 0 ELSE (pq.dim + pq.dsub - 1) \div pq.dsub

\* Columns covered by slot j (0-based); the last slot may be shorter.
SlotLen(pq, j) == Min(pq.dsub, pq.dim - j * pq.dsub)

\* getCentroid(slot, code)[d]: component d of the centroid of a code.
Centroid(pq, slot, code, d) == pq.cb + 2 * code + slot + d

\* encode(data, outCodes, count): the code of cell k (0-based) of the buffer.
EncodeCell(cbid, k) == (cbid + k) % KSub

ComputeCodes(cbid, count) == [k \in 1..count |-> EncodeCell(cbid, k - 1)]

\* Codebooks learnt for the rows and for the norms of training set d.
MainCb(d) == d

NormCb(d) == d + NumData

\* save(stream): the quantizer's own serialized form.
PQBlob(pq) == <<pq.dim, pq.dsub, pq.cb>>


\* load(stream): fails with MalformedStream on a truncated or inconsistent blob.
PQLoad(st) ==
    LET avail == IF st.fail THEN 0 ELSE Len(st.data) - st.pos
        take == Min(3, avail)
        g == SubSeq(st.data, st.pos + 1, st.pos + take)
        cell(k) == IF take >= k THEN g[k] ELSE 0
    IN  [st |-> [data |-> st.data, pos |-> st.pos + take,
                 fail |-> st.fail \/ take < 3],
         ok |-> take = 3 /\ g[1] >= 1 /\ g[2] >= 1,
         pq |-> [null |-> FALSE, dim |-> cell(1), dsub |-> cell(2),
                 cb |-> cell(3)]]

\* The codes of row i are cells i*nsubq .. i*nsubq + nsubq - 1 of the buffer;
\* TRUE when all of them lie inside it.
RowInside(pq, codes, i) ==
    /\ i >= 0
    /\ i * NSubq(pq) + NSubq(pq) <= Len(codes)

\* approximateDot(query, codes, rowIndex, scale).
MulCode(pq, vec, codes, i, alpha) ==
    LET nsubq == NSubq(pq)
        slot(j) == LET c == codes[i * nsubq + j + 1]
                       len == SlotLen(pq, j)
                       term == [d \in 1..len |->
                                   vec[j * pq.dsub + d] * Centroid(pq, j, c, d - 1)]
                   IN  SumTo(term, len)
        slots == [j \in 1..nsubq |-> slot(j - 1)]
    IN  alpha * SumTo(slots, nsubq)

\* approximateAccumulate(accumulator, codes, rowIndex, scale).
AddCode(pq, x, codes, i, alpha) ==
    LET nsubq == NSubq(pq)
    IN  [k \in 1..Len(x) |->
            IF k > pq.dim THEN x[k]
            ELSE LET j == (k - 1) \div pq.dsub
                     d == (k - 1) % pq.dsub
                 IN  x[k] + alpha * Centroid(pq, j, codes[i * nsubq + j + 1], d)]

\* ---------------------------------------------------------- streams
\* An input stream at its start.
Stream(s) == [data |-> s, pos |-> 0, fail |-> FALSE]

\* istream::read of k cells: what is there is extracted; a short read sets
\* the fail bit, after which nothing more is extracted.
ReadN(st, k) ==
    LET avail == IF st.fail THEN 0 ELSE Len(st.data) - st.pos
        take == Min(k, avail)
    IN  [st |-> [data |-> st.data, pos |-> st.pos + take,
                 fail |-> st.fail \/ take < k],
         got |-> SubSeq(st.data, st.pos + 1, st.pos + take)]

\* A buffer of k zero bytes overwritten by the cells read.
Filled(k, got) == [j \in 1..k |-> IF j <= Len(got) THEN got[j] ELSE 0]

\* ------------------------------------------------------ QuantMatrix
\* QuantMatrix(): Matrix() with no rows and no columns, no quantizer.
DefaultFields ==
    [qnorm |-> FALSE, m |-> 0, n |-> 0, codesize |-> 0, codes |-> <<>>,
     pq |-> NullPQ, norm_codes |-> <<>>, npq |-> NullPQ]

\* codesize_ as the constructor computes it.
CodeSize(m, n, dsub) == m * ((n + dsub - 1) \div dsub)

\* quantizeNorm: train the 1-dimensional quantizer on the norms, encode them.
QuantizeNorm(f, d) ==
    [f EXCEPT !.npq = TrainPQ(f.npq, NormCb(d)),
              !.norm_codes = Filled(Len(f.norm_codes),
                                    ComputeCodes(NormCb(d), f.m))]

\* quantize: the norm block first when qnorm_, then train and encode the rows.
Quantize(f, d) ==
    LET g == IF f.qnorm THEN QuantizeNorm(f, d) ELSE f
    IN  [g EXCEPT !.pq = TrainPQ(g.pq, MainCb(d)),
                  !.codes = Filled(g.codesize,
                                   ComputeCodes(MainCb(d), g.m * NSubq(g.pq)))]

\* QuantMatrix(DenseMatrix&& mat, dsub, qnorm) on an m x n matrix with content d.
QuantizedFields(m, n, dsub, qnorm, d) ==
    LET cs == CodeSize(m, n, dsub)
        f0 == [qnorm |-> qnorm, m |-> m, n |-> n, codesize |-> cs,
               codes |-> Zeros(cs), pq |-> NewPQ(n, dsub),
               norm_codes |-> IF qnorm THEN Zeros(m) ELSE <<>>,
               npq |-> IF qnorm THEN NewPQ(1, 1) ELSE NullPQ]
    IN  Quantize(f0, d)

\* save with the two dimensions written in the other order.
SaveBytesColsFirst(f) ==
    <<IF f.qnorm THEN 1 ELSE 0, f.n, f.m, f.codesize>>
        \o SubSeq(f.codes, 1, f.codesize)
        \o PQBlob(f.pq)
        \o (IF f.qnorm THEN SubSeq(f.norm_codes, 1, f.m) \o PQBlob(f.npq)
            ELSE <<>>)

\* The cells save writes for an object with a main quantizer.
SaveBytes(f) ==
    <<IF f.qnorm THEN 1 ELSE 0, f.m, f.n, f.codesize>>
        \o SubSeq(f.codes, 1, f.codesize)
        \o PQBlob(f.pq)
        \o (IF f.qnorm THEN SubSeq(f.norm_codes, 1, f.m) \o PQBlob(f.npq)
            ELSE <<>>)

\* load that reads the norm block whatever the flag says.
LoadResultAlwaysNorm(f, s) ==
    LET r1 == ReadN(Stream(s), 1)
        qn == IF Len(r1.got) = 1 THEN r1.got[1] = 1 ELSE f.qnorm
        r2 == ReadN(r1.st, 1)
        m == IF Len(r2.got) = 1 THEN r2.got[1] ELSE f.m
        r3 == ReadN(r2.st, 1)
        n == IF Len(r3.got) = 1 THEN r3.got[1] ELSE f.n
        r4 == ReadN(r3.st, 1)
        cs == IF Len(r4.got) = 1 THEN r4.got[1] ELSE f.codesize
        r5 == ReadN(r4.st, cs)
        p == PQLoad(r5.st)
        f1 == [qnorm |-> qn, m |-> m, n |-> n, codesize |-> cs,
               codes |-> Filled(cs, r5.got), pq |-> p.pq,
               norm_codes |-> f.norm_codes, npq |-> f.npq]
        r6 == ReadN(p.st, m)
        q == PQLoad(r6.st)
        f2 == [f1 EXCEPT !.norm_codes = Filled(m, r6.got), !.npq = q.pq]
    IN  IF ~p.ok
          THEN [f |-> f1, st |-> p.st, outcome |-> "MalformedStream"]
        ELSE IF ~q.ok
          THEN [f |-> f2, st |-> q.st, outcome |-> "MalformedStream"]
        ELSE [f |-> f2, st |-> q.st, outcome |-> "ok"]

\* load on an object with fields f from stream contents s: the fields, the
\* stream and the outcome when load returns or throws.
LoadResult(f, s) ==
    LET r1 == ReadN(Stream(s), 1)
        qn == IF Len(r1.got) = 1 THEN r1.got[1] = 1 ELSE f.qnorm
        r2 == ReadN(r1.st, 1)
        m == IF Len(r2.got) = 1 THEN r2.got[1] ELSE f.m
        r3 == ReadN(r2.st, 1)
        n == IF Len(r3.got) = 1 THEN r3.got[1] ELSE f.n
        r4 == ReadN(r3.st, 1)
        cs == IF Len(r4.got) = 1 THEN r4.got[1] ELSE f.codesize
        r5 == ReadN(r4.st, cs)
        p == PQLoad(r5.st)
        f1 == [qnorm |-> qn, m |-> m, n |-> n, codesize |-> cs,
               codes |-> Filled(cs, r5.got), pq |-> p.pq,
               norm_codes |-> f.norm_codes, npq |-> f.npq]
        r6 == ReadN(p.st, m)
        q == PQLoad(r6.st)
        f2 == [f1 EXCEPT !.norm_codes = Filled(m, r6.got), !.npq = q.pq]
    IN  IF ~p.ok
          THEN [f |-> f1, st |-> p.st, outcome |-> "MalformedStream"]
        ELSE IF ~qn
          THEN [f |-> f1, st |-> p.st, outcome |-> "ok"]
        ELSE IF ~q.ok
          THEN [f |-> f2, st |-> q.st, outcome |-> "MalformedStream"]
        ELSE [f |-> f2, st |-> q.st, outcome |-> "ok"]


\* norm as dotRow and addRowToVector resolve it.
Norm(f, i) ==
    IF f.qnorm THEN Centroid(f.npq, 0, f.norm_codes[i + 1], 0) ELSE 1

\* The query vector, or the accumulator before the call, of length len.
Vec(len) == [j \in 1..len |-> j]

\* TRUE when a query that runs on fields f with row i and a vector of length
\* len dereferences a null quantizer or reads or writes outside a buffer.
QueryUB(f, len, i) ==
    \/ f.pq.null
    \/ ~RowInside(f.pq, f.codes, i)
    \/ f.pq.dim > len
    \/ f.qnorm /\ (f.npq.null \/ i < 0 \/ i >= Len(f.norm_codes))

\* What dotRow returns when it runs without undefined behaviour.
DotRowValue(f, len, i) == MulCode(f.pq, Vec(len), f.codes, i, Norm(f, i))

\* The accumulator after addRowToVector(x, i, a).
AddRow3Value(f, len, i, a) == AddCode(f.pq, Vec(len), f.codes, i, a * Norm(f, i))

\* addRowToVector(x, i) with the norm applied twice.
AddRow2NormTwice(f, len, i) ==
    AddCode(f.pq, Vec(len), f.codes, i, Norm(f, i) * Norm(f, i))

\* The accumulator after addRowToVector(x, i).
AddRow2Value(f, len, i) == AddCode(f.pq, Vec(len), f.codes, i, Norm(f, i))

\* Values a read of memory outside a buffer may produce.
Garbage == {0, 1}

\* ------------------------------------------------------- the program
Alive == outcome \notin {"Abort", "Crash"}

Usable == origin \in {"default", "quantized", "loaded"}

InitFields(f) ==
    /\ qnorm_ = f.qnorm
    /\ m_ = f.m
    /\ n_ = f.n
    /\ codesize_ = f.codesize
    /\ codes_ = f.codes
    /\ pq_ = f.pq
    /\ norm_codes_ = f.norm_codes
    /\ npq_ = f.npq

SetFields(f) ==
    /\ qnorm_' = f.qnorm
    /\ m_' = f.m
    /\ n_' = f.n
    /\ codesize_' = f.codesize
    /\ codes_' = f.codes
    /\ pq_' = f.pq
    /\ norm_codes_' = f.norm_codes
    /\ npq_' = f.npq

Called(op, i, len, a) ==
    /\ lastOp' = op
    /\ argI' = i
    /\ argLen' = len
    /\ argA' = a
    /\ preOrigin' = origin

\* A call that is given no stream, returns no value, takes no vector.
NoStream == inp' = Stream(<<>>)

NoValue == result' = 0

NoVector == acc' = <<>>

\* The reader threads, none of them in a call.
Threads == 1..2

IdleThread ==
    [pc |-> "idle", op |-> "none", i |-> 0, a |-> 0, norm |-> 0, res |-> <<>>,
     solo |-> <<>>, ovl |-> FALSE, conc |-> FALSE]

IdleThreads == [t \in Threads |-> IdleThread]

\* The loader thread before it calls load: old holds the object's fields then,
\* f the fields the stream holds.
IdleLoader == [pc |-> "idle", f |-> DefaultFields, old |-> DefaultFields]

Init ==
    /\ ndebug \in BOOLEAN
    /\ objects = 1
    /\ \/ /\ origin = "default"
          /\ InitFields(DefaultFields)
       \/ /\ origin = "quantized"
          /\ \E m \in 1..MaxRows, n \in 1..MaxCols, dsub \in 1..MaxDsub,
                qnorm \in BOOLEAN, d \in 1..NumData :
                InitFields(QuantizedFields(m, n, dsub, qnorm, d))
    /\ out = <<>>
    /\ saves = 0
    /\ hasSaved = FALSE
    /\ saved = [origin |-> "none", f |-> DefaultFields]
    /\ inp = Stream(<<>>)
    /\ preOrigin = "none"
    /\ lastOp = "new"
    /\ argI = 0
    /\ argLen = 0
    /\ argA = 0
    /\ outcome = "ok"
    /\ result = 0
    /\ acc = <<>>
    /\ thr = IdleThreads
    /\ ldr = IdleLoader

\* QuantMatrix(): a new, empty object.
QuantMatrixDefault ==
    /\ Alive
    /\ objects < MaxObjects
    /\ objects' = objects + 1
    /\ origin' = "default"
    /\ SetFields(DefaultFields)
    /\ Called("new", 0, 0, 0)
    /\ outcome' = "ok"
    /\ NoStream /\ NoValue /\ NoVector
    /\ UNCHANGED <<ndebug, fileVars, concVars>>

\* QuantMatrix(mat, dsub, qnorm): a new object quantized from a dense matrix.
QuantMatrixQuantize(m, n, dsub, qnorm, d) ==
    /\ Alive
    /\ objects < MaxObjects
    /\ objects' = objects + 1
    /\ origin' = "quantized"
    /\ SetFields(QuantizedFields(m, n, dsub, qnorm, d))
    /\ Called("new", 0, 0, 0)
    /\ outcome' = "ok"
    /\ NoStream /\ NoValue /\ NoVector
    /\ UNCHANGED <<ndebug, fileVars, concVars>>

\* save that leaves the code buffer empty behind it.
SaveMovesCodes ==
    /\ Alive
    /\ Usable
    /\ ~pq_.null
    /\ saves < MaxSaves
    /\ saves' = saves + 1
    /\ Called("save", 0, 0, 0)
    /\ out' = SaveBytes(Fields)
    /\ hasSaved' = TRUE
    /\ saved' = [origin |-> origin, f |-> Fields]
    /\ outcome' = "ok"
    /\ codes_' = <<>>
    /\ NoStream /\ NoValue /\ NoVector
    /\ UNCHANGED <<ndebug, objects, origin, qnorm_, m_, n_, codesize_, pq_,
                   norm_codes_, npq_, concVars>>

\* save(out).  A null pq_ is dereferenced after the codes are written: the
\* call crashes, or writes what it finds there and returns.
Save ==
    /\ Alive
    /\ Usable
    /\ saves < MaxSaves
    /\ saves' = saves + 1
    /\ Called("save", 0, 0, 0)
    /\ IF pq_.null
         THEN /\ \E ub \in {"Crash", "ok"} :
                   /\ outcome' = ub
                   /\ out' = <<IF qnorm_ THEN 1 ELSE 0, m_, n_, codesize_>>
                               \o codes_
                               \o (IF ub = "ok" THEN PQBlob(NullPQ) ELSE <<>>)
              /\ hasSaved' = FALSE
              /\ saved' = [origin |-> "none", f |-> DefaultFields]
         ELSE /\ out' = SaveBytes(Fields)
              /\ hasSaved' = TRUE
              /\ saved' = [origin |-> origin, f |-> Fields]
              /\ outcome' = "ok"
    /\ NoStream /\ NoValue /\ NoVector
    /\ UNCHANGED <<ndebug, objects, origin, fieldVars, concVars>>

\* The stream s with cell k changed: the flag flipped, a number raised by one.
Tamper(s, k) == [s EXCEPT ![k] = IF k = 1 THEN 1 - s[k] ELSE s[k] + 1]

\* Number of header cells: the flag, m_, n_ and codesize_.
HeaderLen == 4

\* The streams load is given: the file, the file followed by more bytes, and,
\* for a file written by a quantized object, its proper prefixes and the file
\* with one header cell changed.
LoadInputs ==
    {out, out \o <<1>>}
        \cup (IF hasSaved /\ saved.origin = "quantized"
                THEN {SubSeq(out, 1, k) : k \in 0..(Len(out) - 1)}
                         \cup {Tamper(out, k) : k \in 1..HeaderLen}
                ELSE {})

\* load(in).  An object whose load threw is not used again.
Load(s) ==
    /\ Alive
    /\ Usable
    /\ LET r == LoadResult(Fields, s)
       IN  /\ SetFields(r.f)
           /\ inp' = r.st
           /\ outcome' = r.outcome
           /\ origin' = IF r.outcome = "ok" THEN "loaded" ELSE "broken"
    /\ Called("load", 0, 0, 0)
    /\ NoValue /\ NoVector
    /\ UNCHANGED <<ndebug, objects, fileVars, concVars>>

\* addVectorToRow(vec, i, a): always throws.
AddVectorToRow(len) ==
    /\ Alive
    /\ Usable
    /\ Called("addVectorToRow", 0, len, 0)
    /\ outcome' = "OperationNotPermitted"
    /\ acc' = Vec(len)
    /\ NoStream /\ NoValue
    /\ UNCHANGED <<ndebug, objects, origin, fieldVars, fileVars, concVars>>

\* dump that writes the dimensions before it throws.
DumpWritesHeader ==
    /\ Alive
    /\ Usable
    /\ Called("dump", 0, 0, 0)
    /\ outcome' = "OperationNotPermitted"
    /\ out' = <<m_, n_>>
    /\ NoStream /\ NoValue /\ NoVector
    /\ UNCHANGED <<ndebug, objects, origin, fieldVars, saves, hasSaved, saved,
                   concVars>>

\* dump(out): always throws.
Dump ==
    /\ Alive
    /\ Usable
    /\ Called("dump", 0, 0, 0)
    /\ outcome' = "OperationNotPermitted"
    /\ NoStream /\ NoValue /\ NoVector
    /\ UNCHANGED <<ndebug, objects, origin, fieldVars, fileVars, concVars>>

\* The arguments the queries are called with: a vector of n_ elements with
\* every index from -1 to m_, and one of n_ + 1 elements with the row indexes.
LenArgs == {n_, n_ + 1}

QueryArgs ==
    {<<n_, i>> : i \in (-1)..m_} \cup {<<n_ + 1, i>> : i \in 0..(m_ - 1)}

\* dotRow(vec, i): the asserts abort a build that keeps them; otherwise the
\* norm is resolved and the main quantizer's mulcode is called.
DotRow(len, i) ==
    /\ Alive
    /\ Usable
    /\ Called("dotRow", i, len, 0)
    /\ IF ~ndebug /\ ~(i >= 0 /\ i < m_ /\ len = n_)
         THEN outcome' = "Abort" /\ result' = 0
       ELSE IF QueryUB(Fields, len, i)
         THEN \/ outcome' = "Crash" /\ result' = 0
              \/ outcome' = "ok" /\ result' \in Garbage
       ELSE outcome' = "ok" /\ result' = DotRowValue(Fields, len, i)
    /\ NoStream /\ NoVector
    /\ UNCHANGED <<ndebug, objects, origin, fieldVars, fileVars, concVars>>

\* addRowToVector(x, i, a): no check of i or of the length of x.
AddRowToVector3(len, i, a) ==
    /\ Alive
    /\ Usable
    /\ Called("addRowToVector3", i, len, a)
    /\ IF QueryUB(Fields, len, i)
         THEN \/ outcome' = "Crash" /\ acc' = Vec(len)
              \/ outcome' = "ok" /\ \E g \in Garbage : acc' = [j \in 1..len |-> g]
         ELSE outcome' = "ok" /\ acc' = AddRow3Value(Fields, len, i, a)
    /\ NoStream /\ NoValue
    /\ UNCHANGED <<ndebug, objects, origin, fieldVars, fileVars, concVars>>

\* addRowToVector(x, i).
AddRowToVector2(len, i) ==
    /\ Alive
    /\ Usable
    /\ Called("addRowToVector2", i, len, 0)
    /\ IF QueryUB(Fields, len, i)
         THEN \/ outcome' = "Crash" /\ acc' = Vec(len)
              \/ outcome' = "ok" /\ \E g \in Garbage : acc' = [j \in 1..len |-> g]
         ELSE outcome' = "ok" /\ acc' = AddRow2Value(Fields, len, i)
    /\ NoStream /\ NoValue
    /\ UNCHANGED <<ndebug, objects, origin, fieldVars, fileVars, concVars>>

MaxScale == 2

Next ==
    \/ QuantMatrixDefault
    \/ \E m \in 1..MaxRows, n \in 1..MaxCols, dsub \in 1..MaxDsub,
          qnorm \in BOOLEAN, d \in 1..NumData :
          QuantMatrixQuantize(m, n, dsub, qnorm, d)
    \/ Save
    \/ \E s \in LoadInputs : Load(s)
    \/ \E q \in QueryArgs : DotRow(q[1], q[2])
    \/ \E q \in QueryArgs, a \in 1..MaxScale : AddRowToVector3(q[1], q[2], a)
    \/ \E q \in QueryArgs : AddRowToVector2(q[1], q[2])
    \/ \E len \in LenArgs : AddVectorToRow(len)
    \/ Dump

Spec == Init /\ [][Next]_vars


\* ------------------------------------------------------------ claims
CeilDiv(a, b) == (a + b - 1) \div b

Queries == {"dotRow", "addRowToVector3", "addRowToVector2"}

\* The last call was a load of exactly the bytes a completed save wrote.
LoadedTheFile == lastOp = "load" /\ hasSaved /\ inp.data = out

\* C1: an object built by the quantizing constructor or populated by load has
\* codesize_ = m_ * ceil(n_ / dsub), dsub being the main quantizer's, codes_
\* holds exactly codesize_ bytes, and the codes of every row lie inside codes_.
C1_CodeBufferSizing ==
    origin \in {"quantized", "loaded"} =>
        /\ codesize_ = m_ * CeilDiv(n_, pq_.dsub)
        /\ Len(codes_) = codesize_
        /\ \A i \in 0..(m_ - 1) : RowInside(pq_, codes_, i)

\* C2: after default construction, quantizing construction or a load that
\* returned, norm_codes_ has m_ > 0 bytes and npq_ is non-null if and only if
\* qnorm_ is true, and both are absent when qnorm_ is false.
C2_NormFlagConsistency ==
    (lastOp = "new" \/ (LoadedTheFile /\ outcome = "ok")) =>
        /\ qnorm_ <=> (norm_codes_ # <<>> /\ Len(norm_codes_) = m_ /\ ~npq_.null)
        /\ ~qnorm_ => (norm_codes_ = <<>> /\ npq_.null)

\* C3: loading the bytes a quantized object x saved into a fresh object gives
\* the fields of x (flag, dimensions, code size, codes, norm codes, both
\* quantizers), and so the same dotRow and addRowToVector results for every row.
C3_RoundTrip ==
    (LoadedTheFile /\ preOrigin = "default" /\ saved.origin = "quantized") =>
        /\ outcome = "ok"
        /\ Fields = saved.f
        /\ \A i \in 0..(saved.f.m - 1) :
              /\ ~QueryUB(Fields, n_, i)
              /\ DotRowValue(Fields, n_, i) = DotRowValue(saved.f, saved.f.n, i)
              /\ AddRow2Value(Fields, n_, i) = AddRow2Value(saved.f, saved.f.n, i)

C3_Witness ==
    /\ LoadedTheFile /\ preOrigin = "default" /\ saved.origin = "quantized"
    /\ outcome = "ok"
    /\ qnorm_ /\ m_ = 2 /\ n_ = 2 /\ pq_.dsub = 1

\* The cells of s from position p + 1 on, k of them.
Cells(s, p, k) == SubSeq(s, p + 1, p + k)

\* C4: save writes the flag, m_, n_, codesize_, the codesize_ code bytes, the
\* main quantizer's blob and, only when qnorm_ is true, the m_ norm-code bytes
\* and the norm quantizer's blob, in this order; load of these bytes, whatever
\* follows them in the stream, returns having read the norm block exactly when
\* the flag is set and having consumed exactly the bytes save wrote.
C4_SaveLoadLockstep ==
    /\ (lastOp = "save" /\ hasSaved) =>
          /\ Len(out) = HeaderLen + codesize_ + 3 + (IF qnorm_ THEN m_ + 3 ELSE 0)
          /\ out[1] = (IF qnorm_ THEN 1 ELSE 0)
          /\ out[2] = m_ /\ out[3] = n_ /\ out[4] = codesize_
          /\ Cells(out, HeaderLen, codesize_) = codes_
          /\ Cells(out, HeaderLen + codesize_, 3) = PQBlob(pq_)
          /\ qnorm_ =>
                /\ Cells(out, HeaderLen + codesize_ + 3, m_) = norm_codes_
                /\ Cells(out, HeaderLen + codesize_ + 3 + m_, 3) = PQBlob(npq_)
    /\ (lastOp = "load" /\ hasSaved /\ inp.data \in {out, out \o <<1>>}) =>
          /\ outcome = "ok"
          /\ ~inp.fail
          /\ inp.pos = Len(out)
          /\ qnorm_ = (out[1] = 1)
          /\ qnorm_ => norm_codes_ = saved.f.norm_codes /\ npq_ = saved.f.npq

C4_Witness ==
    /\ lastOp = "load" /\ hasSaved /\ inp.data = out \o <<1>>
    /\ ~saved.f.qnorm /\ inp.pos = Len(out) /\ outcome = "ok"

\* C5: dotRow and both forms of addRowToVector, called on a constructed or
\* loaded object with i = m_, with i = -1 or with a vector of n_ + 1 elements,
\* end with InvalidArgument.
C5_BoundsChecking ==
    (/\ lastOp \in Queries
     /\ origin \in {"quantized", "loaded"}
     /\ (argI = m_ \/ argI = -1 \/ argLen = n_ + 1)) =>
        outcome = "InvalidArgument"

\* C6: addVectorToRow and dump always end with OperationNotPermitted and leave
\* the fields of the object, the vector given and the output stream as they were.
C6_TotalRefusal ==
    [][lastOp' \in {"addVectorToRow", "dump"} =>
          /\ outcome' = "OperationNotPermitted"
          /\ UNCHANGED <<fieldVars, origin, out>>
          /\ lastOp' = "addVectorToRow" => acc' = Vec(argLen')]_vars

C6_Witness ==
    /\ lastOp = "addVectorToRow" /\ outcome = "OperationNotPermitted"
    /\ origin = "loaded" /\ hasSaved /\ acc = Vec(n_) /\ n_ = 2

\* C7: a load of a stream that is truncated, or whose header disagrees with
\* itself or with the main quantizer's blob, ends with MalformedStream.
C7_NoPartialSuccess ==
    (/\ lastOp = "load"
     /\ \/ inp.fail
        \/ pq_.dsub < 1
        \/ codesize_ # m_ * CeilDiv(n_, pq_.dsub)
        \/ pq_.dim # n_) =>
        outcome = "MalformedStream"


\* The fields a created object is said to keep.
Kept == <<m_, n_, pq_.dsub, qnorm_, codes_, norm_codes_>>

ReconRow(f, i) ==
    [k \in 1..f.pq.dim |->
        Centroid(f.pq, (k - 1) \div f.pq.dsub,
                 f.codes[i * NSubq(f.pq) + ((k - 1) \div f.pq.dsub) + 1],
                 (k - 1) % f.pq.dsub)]

\* The vector x after alpha times row i was added into it.
Accumulated(f, len, i, alpha) ==
    [k \in 1..len |->
        Vec(len)[k] + (IF k <= f.pq.dim THEN alpha * ReconRow(f, i)[k] ELSE 0)]

DefinedQuery(op) ==
    lastOp = op /\ outcome = "ok" /\ ~QueryUB(Fields, argLen, argI)

\* C9: addRowToVector(x, i, scale) adds scale * norm(i) times the reconstructed
\* row i into x, and addRowToVector(x, i) gives what the three-argument form
\* gives with scale = norm(i).
C9_ScaledAccumulation ==
    /\ DefinedQuery("addRowToVector3") =>
          acc = Accumulated(Fields, argLen, argI, argA * Norm(Fields, argI))
    /\ DefinedQuery("addRowToVector2") =>
          acc = AddRow3Value(Fields, argLen, argI, Norm(Fields, argI))

\* C9, amended: addRowToVector(x, i, scale) adds scale * norm(i) times the
\* reconstructed row i into x, and addRowToVector(x, i) gives what the
\* three-argument form gives with scale = 1: norm(i) times the row.
C9_ScaledAccumulationUnitScale ==
    /\ DefinedQuery("addRowToVector3") =>
          acc = Accumulated(Fields, argLen, argI, argA * Norm(Fields, argI))
    /\ DefinedQuery("addRowToVector2") =>
          /\ acc = AddRow3Value(Fields, argLen, argI, 1)
          /\ acc = Accumulated(Fields, argLen, argI, Norm(Fields, argI))

C9_Witness ==
    /\ DefinedQuery("addRowToVector2")
    /\ qnorm_ /\ Norm(Fields, argI) > 1 /\ n_ = 2 /\ argI = 1


\* ------------------------------------------- concurrent readers, one loader
\* A quantized object shared by two reader threads and a thread that loads
\* into it the bytes another quantized object saved.  A reader's call is the
\* sequence of its reads: the asserts (dotRow), the norm, the quantizer call.
\* The loader's call is the sequence of its assignments, in source order.
seqVars == <<ndebug, objects, origin, fileVars, lastOp, preOrigin, argI, argLen,
             argA, inp, result, acc>>

ConcInit ==
    /\ ndebug \in BOOLEAN
    /\ objects = 1
    /\ origin = "quantized"
    /\ \E n \in 1..MaxCols, qnorm \in BOOLEAN :
          /\ InitFields(QuantizedFields(MaxRows, n, 1, qnorm, 1))
          /\ out = SaveBytes(QuantizedFields(1, MaxCols, MaxDsub, ~qnorm, 1))
          /\ saved = [origin |-> "quantized",
                      f |-> QuantizedFields(1, MaxCols, MaxDsub, ~qnorm, 1)]
    /\ saves = 1
    /\ hasSaved = TRUE
    /\ inp = Stream(<<>>)
    /\ preOrigin = "none"
    /\ lastOp = "new"
    /\ argI = 0
    /\ argLen = 0
    /\ argA = 0
    /\ outcome = "ok"
    /\ result = 0
    /\ acc = <<>>
    /\ thr = IdleThreads
    /\ ldr = [pc |-> "idle", f |-> LoadResult(Fields, out).f, old |-> Fields]

Reading(t) == thr[t].pc \in {"check", "norm", "mul"}

Loading == ldr.pc \notin {"idle", "done"}

\* What a call returns when it runs alone on fields f.
SoloValue(f, op, i, a) ==
    IF op = "dotRow" THEN <<DotRowValue(f, f.n, i)>>
    ELSE IF op = "addRowToVector3" THEN AddRow3Value(f, f.n, i, a)
    ELSE AddRow2Value(f, f.n, i)

\* The queries each thread calls.
ThreadOps(t) ==
    IF t = 1 THEN {"addRowToVector3", "addRowToVector2"}
    ELSE {"dotRow", "addRowToVector2"}

\* A thread calls a query with a row index and a vector the object admits.
\* conc records, for thread 1, that thread 2 was in a call during its call.
CCall(t, op, i, a) ==
    /\ Alive
    /\ thr[t].pc = "idle"
    /\ ~QueryUB(Fields, n_, i)
    /\ thr' = [u \in Threads |->
                 IF u = t
                   THEN [pc |-> IF op = "dotRow" THEN "check" ELSE "norm",
                         op |-> op, i |-> i, a |-> a, norm |-> 0, res |-> <<>>,
                         solo |-> SoloValue(Fields, op, i, a),
                         ovl |-> Loading,
                         conc |-> t = 1 /\ Reading(2)]
                 ELSE IF u = 1 /\ Reading(u) THEN [thr[u] EXCEPT !.conc = TRUE]
                 ELSE thr[u]]
    /\ UNCHANGED <<seqVars, outcome, fieldVars, ldr>>

\* dotRow's asserts, in a build that keeps them.
CCheck(t) ==
    /\ Alive
    /\ thr[t].pc = "check"
    /\ IF ~ndebug /\ ~(thr[t].i >= 0 /\ thr[t].i < m_)
         THEN outcome' = "Abort" /\ thr' = thr
         ELSE outcome' = outcome /\ thr' = [thr EXCEPT ![t].pc = "norm"]
    /\ UNCHANGED <<seqVars, fieldVars, ldr>>

\* A norm read that clears the norm code it decoded.
CNormConsumes(t) ==
    /\ Alive
    /\ thr[t].pc = "norm"
    /\ ~thr[t].ovl
    /\ thr' = [thr EXCEPT ![t].pc = "mul", ![t].norm = Norm(Fields, thr[t].i)]
    /\ norm_codes_' = [k \in 1..Len(norm_codes_) |->
                          IF k = thr[t].i + 1 THEN 0 ELSE norm_codes_[k]]
    /\ UNCHANGED <<seqVars, outcome, qnorm_, m_, n_, codesize_, codes_, pq_, npq_,
                   ldr>>

\* real norm = 1; if (qnorm_) norm = npq_->get_centroids(0, norm_codes_[i])[0];
\* racing with load, the read may also crash or give anything.
CNorm(t) ==
    /\ Alive
    /\ thr[t].pc = "norm"
    /\ LET i == thr[t].i
           bad == qnorm_ /\ (npq_.null \/ i < 0 \/ i >= Len(norm_codes_))
       IN  \/ /\ ~bad
              /\ thr' = [thr EXCEPT ![t].pc = "mul", ![t].norm = Norm(Fields, i)]
              /\ outcome' = outcome
           \/ /\ bad \/ thr[t].ovl
              /\ \/ outcome' = "Crash" /\ thr' = thr
                 \/ /\ outcome' = outcome
                    /\ \E g \in Garbage :
                          thr' = [thr EXCEPT ![t].pc = "mul", ![t].norm = g]
    /\ UNCHANGED <<seqVars, fieldVars, ldr>>

\* pq_->mulcode(vec, codes_.data(), i, norm), pq_->addcode(x, codes_.data(), i,
\* a * norm) or pq_->addcode(x, codes_.data(), i, norm).
CMul(t) ==
    /\ Alive
    /\ thr[t].pc = "mul"
    /\ LET i == thr[t].i
           len == Len(thr[t].solo)
           f == Fields
           bad == f.pq.null \/ ~RowInside(f.pq, f.codes, i) \/ f.pq.dsub < 1
       IN  \/ /\ ~bad
              /\ outcome' = outcome
              /\ thr' = [thr EXCEPT
                    ![t].pc = "done", ![t].norm = 0,
                    ![t].res =
                       IF thr[t].op = "dotRow"
                         THEN <<MulCode(f.pq, Vec(f.pq.dim), f.codes, i, thr[t].norm)>>
                       ELSE IF thr[t].op = "addRowToVector3"
                         THEN AddCode(f.pq, Vec(f.pq.dim), f.codes, i,
                                      thr[t].a * thr[t].norm)
                       ELSE AddCode(f.pq, Vec(f.pq.dim), f.codes, i, thr[t].norm)]
           \/ /\ bad \/ thr[t].ovl
              /\ \/ outcome' = "Crash" /\ thr' = thr
                 \/ /\ outcome' = outcome
                    /\ \E g \in Garbage :
                          thr' = [thr EXCEPT ![t].pc = "done", ![t].norm = 0,
                                             ![t].res = <<g>>]
    /\ UNCHANGED <<seqVars, fieldVars, ldr>>

\* The call returns to its caller.
CReturn(t) ==
    /\ Alive
    /\ thr[t].pc = "done"
    /\ thr' = [thr EXCEPT ![t] = IdleThread]
    /\ UNCHANGED <<seqVars, outcome, fieldVars, ldr>>

\* The next assignment of load after the one at pc.
LoaderNext(pc) ==
    CASE pc = "idle" -> "qnorm"
      [] pc = "qnorm" -> "m"
      [] pc = "m" -> "n"
      [] pc = "n" -> "codesize"
      [] pc = "codesize" -> "alloc"
      [] pc = "alloc" -> "codes"
      [] pc = "codes" -> "newpq"
      [] pc = "newpq" -> "pq"
      [] pc = "pq" -> IF qnorm_ THEN "norm_codes" ELSE "done"
      [] pc = "norm_codes" -> "npq"
      [] OTHER -> "done"

\* One assignment of load: the field named by the next pc is taken from the
\* stream.
CLoadStep ==
    /\ Alive
    /\ ldr.pc # "done"
    /\ LET nx == LoaderNext(ldr.pc)
           y == ldr.f
       IN  /\ ldr' = [ldr EXCEPT !.pc = nx]
           /\ qnorm_' = IF nx = "qnorm" THEN y.qnorm ELSE qnorm_
           /\ m_' = IF nx = "m" THEN y.m ELSE m_
           /\ n_' = IF nx = "n" THEN y.n ELSE n_
           /\ codesize_' = IF nx = "codesize" THEN y.codesize ELSE codesize_
           /\ codes_' = IF nx = "alloc" THEN Zeros(codesize_)
                        ELSE IF nx = "codes" THEN y.codes ELSE codes_
           /\ pq_' = IF nx = "newpq" THEN EmptyPQ
                     ELSE IF nx = "pq" THEN y.pq ELSE pq_
           /\ norm_codes_' = IF nx = "norm_codes" THEN y.norm_codes
                             ELSE norm_codes_
           /\ npq_' = IF nx = "npq" THEN y.npq ELSE npq_
    /\ thr' = [u \in Threads |->
                 IF Reading(u) THEN [thr[u] EXCEPT !.ovl = TRUE] ELSE thr[u]]
    /\ UNCHANGED <<seqVars, outcome>>

ConcNext ==
    \/ \E t \in Threads, i \in 0..(m_ - 1) :
          \E op \in ThreadOps(t) :
             CCall(t, op, i, IF op = "addRowToVector3" THEN MaxScale ELSE 0)
    \/ \E t \in Threads : CCheck(t)
    \/ \E t \in Threads : CNorm(t)
    \/ \E t \in Threads : CMul(t)
    \/ \E t \in Threads : CReturn(t)
    \/ CLoadStep

ConcSpec == ConcInit /\ [][ConcNext]_vars

\* C10: a dotRow or addRowToVector call that runs with no load in progress,
\* whatever other such calls run at the same time on their own accumulators,
\* returns what it returns when it runs alone, and until a load starts the
\* object stays as it was built and no call aborts or crashes.
C10_ConcurrentReads ==
    /\ \A t \in Threads :
          (thr[t].pc = "done" /\ ~thr[t].ovl) => thr[t].res = thr[t].solo
    /\ ldr.pc = "idle" => (Fields = ldr.old /\ outcome = "ok")

\* m_, n_ and codesize_ are the stream's while codes_ and pq_ are still those
\* of the object as it was built.
TornByLoad ==
    /\ ldr.pc = "codesize"
    /\ <<m_, n_, codesize_>> = <<ldr.f.m, ldr.f.n, ldr.f.codesize>>
    /\ <<m_, n_, codesize_>> # <<ldr.old.m, ldr.old.n, ldr.old.codesize>>
    /\ codes_ = ldr.old.codes /\ pq_ = ldr.old.pq /\ pq_ # ldr.f.pq

\* Thread 1 finished a call that ran beside thread 2's and outside the load;
\* thread 2 is inside dotRow while the object is torn by the load.
C10_Witness ==
    /\ thr[1].pc = "done" /\ ~thr[1].ovl /\ thr[1].conc
    /\ thr[1].op = "addRowToVector3" /\ thr[1].res = thr[1].solo
    /\ thr[2].op = "dotRow" /\ thr[2].pc = "mul" /\ thr[2].ovl
    /\ TornByLoad

====
